---- MODULE Spec2Model ----
(***************************************************************************)
(* Shape and dependency model of encoders/encoders.py: the SoundStreamXL   *)
(* causal encoder/decoder stack, the multi-scale WaveDiscriminator and the *)
(* STFTDiscriminator, with their features_lengths bookkeeping.             *)
(*                                                                         *)
(* A 1-D activation is abstracted to its time axis: a record               *)
(*   [ok |-> BOOLEAN, dep |-> sequence]                                    *)
(* where Len(dep) is the number of time steps and dep[j+1] is the largest  *)
(* index of the network input that time step j (0-based) can depend on     *)
(* (-1: none, e.g. zero padding).  ok = FALSE is a raised shape error.     *)
(* Channels and batch are left out: no layer mixes them with time.         *)
(***************************************************************************)
EXTENDS Integers, Sequences, FiniteSets

VARIABLES
    pc,       \* control position of the program
    enc,      \* SoundStreamXLEncoder: [strides, layers] once constructed
    dec,      \* SoundStreamXLDecoder: [strides, layers] once constructed
    T,        \* length of the waveform given to the encoder
    x,        \* current activation inside the encoder/decoder nn.Sequential
    layer,    \* index of the next layer of the running nn.Sequential
    frames,   \* number of latent frames the encoder returned
    wd,       \* WaveDiscriminator object: [num_D, downsampling_factor, keys]
    wrun,     \* a WaveDiscriminator call: input length, loop indices, results
    sd,       \* STFTDiscriminator object: [F_bins, layers]
    srun,     \* a STFTDiscriminator call: input sizes, loop index, results
    tm,       \* a model under train_mode: its modules' training flags, the saved modes
    ct,       \* a CausalConvTranspose1d call: configuration, input length, output
    gp        \* a get_padding call: arguments and outcome

vars == <<pc, enc, dec, T, x, layer, frames, wd, wrun, sd, srun, tm, ct, gp>>

-----------------------------------------------------------------------------
(* Bounds of the model *)

\* waveforms given to the codec have q * 640 - e samples, q in 1..MaxFrames
MaxFrames == 2
\* ... and e in 0..MaxSlack
MaxSlack == 1
\* lengths given to the WaveDiscriminator are 0..MaxWaveLen
MaxWaveLen == 1000
\* num_D is in 1..MaxNumD
MaxNumD == 3
\* downsampling_factor is in 1..MaxFactor
MaxFactor == 3
\* time lengths given to the STFTDiscriminator are 0..MaxSTFTLen
MaxSTFTLen == 70
\* F_bins is in 2^6..MaxFBins
MaxFBins == 72
\* a model under train_mode has 1..MaxModules modules
MaxModules == 3
\* a lone CausalConvTranspose1d has kernel_size in 1..MaxKernel,
MaxKernel == 4
\* stride in 1..MaxStride,
MaxStride == 3
\* dilation in 1..MaxDilation,
MaxDilation == 2
\* output_padding in 0..MaxOutputPadding
MaxOutputPadding == 1
\* and is given 1..MaxTransposeLen time steps
MaxTransposeLen == 3
\* get_padding is called with kernel_size in 1..MaxPadKernel
MaxPadKernel == 4

-----------------------------------------------------------------------------
(* Tensor helpers *)

NoDep == 0 - 1

Max2(a, b) == IF a >= b THEN a ELSE b

\* the largest of the first n entries of s, NoDep when n = 0
RECURSIVE MaxUpTo(_, _)
MaxUpTo(s, n) == IF n = 0 THEN NoDep ELSE Max2(s[n], MaxUpTo(s, n - 1))

MaxOfSeq(s) == MaxUpTo(s, Len(s))

RECURSIVE Prod(_)
Prod(s) == IF s = <<>> THEN 1 ELSE Head(s) * Prod(Tail(s))

Reverse(s) == [i \in 1..Len(s) |-> s[Len(s) + 1 - i]]

Failed == [ok |-> FALSE, dep |-> <<>>]

\* an activation with the given dependencies, held as an explicit tuple
Tensor(d) == [ok |-> TRUE, dep |-> SubSeq(d, 1, Len(d))]

\* the network input of length n: sample j depends on sample j
Input(n) == Tensor([j \in 1..n |-> j - 1])

\* F.pad(x, [left, right]) with zeros
Pad(t, left, right) ==
    IF ~t.ok THEN Failed
    ELSE Tensor([j \in 1..(left + Len(t.dep) + right) |->
                    IF j > left /\ j <= left + Len(t.dep)
                    THEN t.dep[j - left] ELSE NoDep])

\* nn.Conv1d without padding: output j reads inputs j*s + i*d, i in 0..k-1
Conv1d(t, k, s, d) ==
    IF ~t.ok THEN Failed
    ELSE LET L    == Len(t.dep)
             span == d * (k - 1) + 1
         IN  IF L < span \/ k < 1 \/ s < 1 THEN Failed
             ELSE Tensor([j \in 1..(((L - span) \div s) + 1) |->
                     MaxOfSeq([i \in 1..k |-> t.dep[(j - 1) * s + (i - 1) * d + 1]])])

\* nn.ELU and the other activations act on each element alone
ELU(t) == t

\* x + y of two activations
Add(a, b) ==
    IF ~a.ok \/ ~b.ok \/ Len(a.dep) # Len(b.dep) THEN Failed
    ELSE Tensor([j \in 1..Len(a.dep) |-> Max2(a.dep[j], b.dep[j])])

\* Python's x[..., :stop] for any integer stop
SliceTo(t, stop) ==
    IF ~t.ok THEN Failed
    ELSE LET L == Len(t.dep)
             e == IF stop < 0 THEN Max2(L + stop, 0)
                  ELSE IF stop > L THEN L ELSE stop
         IN  Tensor(SubSeq(t.dep, 1, e))

-----------------------------------------------------------------------------
(* Generator: causal primitives and blocks *)

CausalPaddingOffByOne(k, d) == d * (k - 1) - 1

\* CausalConv1d.__init__: self.causal_padding
CausalPadding(k, d) == d * (k - 1)

\* CausalConv1d.forward
CausalConv1d(t, k, s, d) == Conv1d(Pad(t, CausalPadding(k, d), 0), k, s, d)

\* F.conv_transpose1d with padding 0: input i writes outputs i*s + j*d
ConvTranspose1d(t, k, s, d, output_padding) ==
    IF ~t.ok THEN Failed
    ELSE LET L == Len(t.dep)
         IN  IF L < 1 \/ k < 1 \/ s < 1 \/ output_padding >= Max2(s, d) THEN Failed
             ELSE Tensor([o \in 1..((L - 1) * s + d * (k - 1) + output_padding + 1) |->
                     MaxOfSeq([i \in 1..k |->
                         LET p == (o - 1) - (i - 1) * d
                         IN  IF p >= 0 /\ p % s = 0 /\ p \div s < L
                             THEN t.dep[(p \div s) + 1] ELSE NoDep])])

TransposeCausalPaddingNoTrim(k, s, d, output_padding) ==
    d * (k - 1) + output_padding - s

\* CausalConvTranspose1d.__init__: self.causal_padding
TransposeCausalPadding(k, s, d, output_padding) ==
    d * (k - 1) + output_padding + 1 - s

\* CausalConvTranspose1d.forward, for a module built with output_padding
CausalConvTranspose1dForward(t, k, s, d, output_padding) ==
    SliceTo(ConvTranspose1d(t, k, s, d, output_padding),
            0 - TransposeCausalPadding(k, s, d, output_padding))

\* CausalConvTranspose1d.forward, output_padding left at its default 0
CausalConvTranspose1d(t, k, s, d) == CausalConvTranspose1dForward(t, k, s, d, 0)

\* ResidualUnit.forward
ResidualUnit(t, dilation) ==
    Add(t, Conv1d(ELU(CausalConv1d(t, 7, 1, dilation)), 1, 1, 1))

\* EncoderBlock.forward
EncoderBlock(t, stride) ==
    CausalConv1d(
        ELU(ResidualUnit(ELU(ResidualUnit(ELU(ResidualUnit(t, 1)), 3)), 9)),
        2 * stride, stride, 1)

\* DecoderBlock.forward
DecoderBlock(t, stride) ==
    ResidualUnit(ELU(ResidualUnit(ELU(ResidualUnit(
        ELU(CausalConvTranspose1d(t, 2 * stride, stride, 1)), 1)), 3)), 9)

\* one entry of an nn.Sequential
L_(op, k, s) == [op |-> op, k |-> k, s |-> s]

ApplyLayer(l, t) ==
    CASE l.op = "CausalConv1d" -> CausalConv1d(t, l.k, l.s, 1)
      [] l.op = "ELU"          -> ELU(t)
      [] l.op = "EncoderBlock" -> EncoderBlock(t, l.s)
      [] l.op = "DecoderBlock" -> DecoderBlock(t, l.s)

RECURSIVE Concat(_)
Concat(ss) == IF ss = <<>> THEN <<>> ELSE Head(ss) \o Concat(Tail(ss))

\* the default of the `strides` argument, and the decoder's own list
DefaultStrides == <<2, 2, 4, 5, 8>>

\* the default c_mults; the model keeps only their number
DefaultCMults == <<2, 4, 4, 8, 16>>

\* SoundStreamXLEncoder.__init__: the layers of self.layers
EncoderLayers(strides) ==
    LET depth == Len(DefaultCMults) + 1
    IN  <<L_("CausalConv1d", 7, 1), L_("ELU", 0, 0)>>
        \o Concat([i \in 1..(depth - 1) |->
                     <<L_("EncoderBlock", 0, strides[i]), L_("ELU", 0, 0)>>])
        \o <<L_("CausalConv1d", 3, 1)>>

DecoderBlockOrderForward(depth) == [n \in 1..(depth - 1) |-> n]

\* SoundStreamXLDecoder.__init__: range(self.depth-1, 0, -1)
DecoderBlockOrder(depth) == [n \in 1..(depth - 1) |-> depth - n]

\* SoundStreamXLDecoder.__init__: the layers of self.layers
DecoderLayers ==
    LET depth == Len(DefaultCMults) + 1
        order == DecoderBlockOrder(depth)
    IN  <<L_("CausalConv1d", 7, 1), L_("ELU", 0, 0)>>
        \o Concat([n \in 1..(depth - 1) |->
                     <<L_("DecoderBlock", 0, DefaultStrides[order[n]]),
                       L_("ELU", 0, 0)>>])
        \o <<L_("CausalConv1d", 7, 1)>>

\* the (kernel, stride, dilation) of the CausalConv1d modules inside one entry
\* of the encoder's nn.Sequential
CausalConvsOf(l) ==
    CASE l.op = "CausalConv1d" -> { <<l.k, l.s, 1>> }
      [] l.op = "EncoderBlock" ->
            { <<7, 1, 1>>, <<7, 1, 3>>, <<7, 1, 9>>, <<2 * l.s, l.s, 1>> }
      [] OTHER -> {}

\* the strides of a layer list's blocks, in the order they are applied
RECURSIVE BlockStrides(_)
BlockStrides(ls) ==
    IF ls = <<>> THEN <<>>
    ELSE (IF Head(ls).op \in {"EncoderBlock", "DecoderBlock"}
          THEN <<Head(ls).s>> ELSE <<>>) \o BlockStrides(Tail(ls))

-----------------------------------------------------------------------------
(* Length arithmetic of the discriminators' layers *)

\* marks a raised shape error where a length is expected
Err == 0 - 1

\* nn.Conv1d / one axis of nn.Conv2d with symmetric zero padding p
ConvOutLen(n, k, s, p) ==
    IF n < 0 \/ k < 1 \/ s < 1 \/ n + 2 * p < k THEN Err
    ELSE ((n + 2 * p - k) \div s) + 1

\* nn.ReflectionPad1d(p): the padding must be smaller than the input
ReflectionPadLen(n, p) == IF n < 0 \/ p >= n THEN Err ELSE n + 2 * p

AvgPoolLenNoPadding(n, k, s, p) ==
    IF n < k THEN Err ELSE ((n - k) \div s) + 1

\* nn.AvgPool1d(kernel_size=k, stride=s, padding=p), ceil_mode off
AvgPoolLen(n, k, s, p) ==
    IF n < 0 \/ n + 2 * p < k THEN Err
    ELSE LET o == ((n + 2 * p - k) \div s) + 1 IN IF o < 1 THEN Err ELSE o

-----------------------------------------------------------------------------
(* Wave-based discriminator *)

W_(reflect, k, s, p) == [reflect |-> reflect, k |-> k, s |-> s, p |-> p]

\* WaveDiscriminatorBlock.__init__: self.layers
WaveBlockLayers ==
    << W_(7, 15, 1, 0),
       W_(0, 41, 4, 20), W_(0, 41, 4, 20), W_(0, 41, 4, 20), W_(0, 41, 4, 20),
       W_(0, 5, 1, 2),
       W_(0, 3, 1, 1) >>

\* one layer of WaveDiscriminatorBlock.layers applied to a length
WaveLayerLen(l, n) ==
    ConvOutLen(IF l.reflect > 0 THEN ReflectionPadLen(n, l.reflect) ELSE n,
               l.k, l.s, l.p)

WaveBlockFeaturesLengthsRoundedDown(lengths) ==
    << lengths, lengths \div 4, lengths \div 16, lengths \div 64,
       lengths \div 256, lengths \div 256, lengths \div 256 >>

\* WaveDiscriminatorBlock.features_lengths
WaveBlockFeaturesLengths(lengths) ==
    << lengths,
       (lengths + 3) \div 4,
       (lengths + 15) \div 16,
       (lengths + 63) \div 64,
       (lengths + 255) \div 256,
       (lengths + 255) \div 256,
       (lengths + 255) \div 256 >>

RECURSIVE Pow(_, _)
Pow(b, e) == IF e = 0 THEN 1 ELSE b * Pow(b, e - 1)

\* the name f"disc_{downsampling_factor**i}", kept as its number
DiscKey(factor, i) == Pow(factor, i)

\* d[key] = value of a Python dict
DictPut(d, key, value) ==
    [kk \in (DOMAIN d) \cup {key} |-> IF kk = key THEN value ELSE d[kk]]

EmptyDict == [kk \in {} |-> <<>>]

ScaleDivisorByFactor(factor, i) == Pow(factor, i)

\* WaveDiscriminator.features_lengths: the divisor 2**i of scale i
ScaleDivisor(factor, i) == Pow(2, i)

\* WaveDiscriminator.features_lengths: the dict comprehension, i = from..num_D-1
RECURSIVE WaveLensFrom(_, _, _, _)
WaveLensFrom(w, lengths, from, d) ==
    IF from >= w.num_D THEN d
    ELSE WaveLensFrom(w, lengths, from + 1,
            DictPut(d, DiscKey(w.downsampling_factor, from),
                    WaveBlockFeaturesLengths(
                        lengths \div ScaleDivisor(w.downsampling_factor, from))))

WaveFeaturesLengthsOf(w, lengths) == WaveLensFrom(w, lengths, 0, EmptyDict)

\* WaveDiscriminator.__init__: self.downsampler
Downsampler(n) == AvgPoolLen(n, 4, 2, 1)

-----------------------------------------------------------------------------
(* STFT-based discriminator *)

S_(op, st, sf, kf) == [op |-> op, s_t |-> st, s_f |-> sf, kf |-> kf]

\* STFTDiscriminator.__init__: self.layers
STFTLayers(F_bins) ==
    << S_("Conv2d", 0, 0, 7),
       S_("ResidualUnit2d", 1, 2, 0), S_("ResidualUnit2d", 2, 2, 0),
       S_("ResidualUnit2d", 1, 2, 0), S_("ResidualUnit2d", 2, 2, 0),
       S_("ResidualUnit2d", 1, 2, 0), S_("ResidualUnit2d", 2, 2, 0),
       S_("FinalConv2d", 0, 0, F_bins \div Pow(2, 6)) >>

Size(t, f) == [t |-> t, f |-> f]

BadSize == Size(Err, Err)

Checked(z) == IF z.t = Err \/ z.f = Err THEN BadSize ELSE z

RU2dMainPadStride(z, s_t, s_f) ==
    LET padded == Size(z.t + s_t, z.f + s_f)
        same   == Size(ConvOutLen(padded.t, 3, 1, 1), ConvOutLen(padded.f, 3, 1, 1))
    IN  Checked(Size(ConvOutLen(same.t, s_t + 2, s_t, 0),
                     ConvOutLen(same.f, s_f + 2, s_f, 0)))

\* ResidualUnit2d.forward: self.layers(F.pad(x, [s_t+1, 0, s_f+1, 0]))
RU2dMain(z, s_t, s_f) ==
    LET padded == Size(z.t + s_t + 1, z.f + s_f + 1)
        same   == Size(ConvOutLen(padded.t, 3, 1, 1), ConvOutLen(padded.f, 3, 1, 1))
    IN  Checked(Size(ConvOutLen(same.t, s_t + 2, s_t, 0),
                     ConvOutLen(same.f, s_f + 2, s_f, 0)))

\* ResidualUnit2d.forward: self.skip_connection(x)
RU2dSkip(z, s_t, s_f) ==
    Checked(Size(ConvOutLen(z.t, 1, s_t, 0), ConvOutLen(z.f, 1, s_f, 0)))

\* ResidualUnit2d.forward: the sum of the two branches
ResidualUnit2d(z, s_t, s_f) ==
    LET a == RU2dMain(z, s_t, s_f)
        b == RU2dSkip(z, s_t, s_f)
    IN  IF a = BadSize \/ b = BadSize \/ a # b THEN BadSize ELSE a

\* one entry of STFTDiscriminator.layers applied to a (time, frequency) size
STFTLayerSize(l, z) ==
    IF z = BadSize THEN BadSize
    ELSE CASE l.op = "Conv2d" ->
                Checked(Size(ConvOutLen(z.t, l.kf, 1, 0), ConvOutLen(z.f, l.kf, 1, 0)))
           [] l.op = "ResidualUnit2d" -> ResidualUnit2d(z, l.s_t, l.s_f)
           [] l.op = "FinalConv2d" ->
                Checked(Size(ConvOutLen(z.t, 1, 1, 0), ConvOutLen(z.f, l.kf, 1, 0)))

\* STFTDiscriminator.features_lengths
STFTFeaturesLengthsOf(lengths) ==
    << lengths - 6,
       lengths - 6,
       (lengths - 5) \div 2,
       (lengths - 5) \div 2,
       (lengths - 3) \div 4,
       (lengths - 3) \div 4,
       (lengths + 1) \div 8,
       (lengths + 1) \div 8 >>

-----------------------------------------------------------------------------
(* Inputs *)

\* `strides` arguments given to SoundStreamXLEncoder
StrideChoices ==
    { DefaultStrides, <<2, 2, 4, 5, 4>>, <<8, 5, 4, 2, 2>>,
      <<2, 2, 4, 5>>, <<2, 2, 4, 5, 8, 2>> }

\* waveform lengths given to the codec
CodecLengths ==
    { q * Prod(DefaultStrides) - e : q \in 1..MaxFrames, e \in 0..MaxSlack }

NoModule == [strides |-> <<>>, layers |-> <<>>]

NoWave == [num_D |-> 0, downsampling_factor |-> 0]

NoWaveRun ==
    [L |-> 0, lens |-> EmptyDict, i |-> 0, j |-> 0, x |-> 0, h |-> 0,
     fmap |-> <<>>, results |-> EmptyDict]

NoSTFT == [F_bins |-> 0, layers |-> <<>>]

NoSTFTRun == [L |-> 0, lens |-> <<>>, j |-> 0, z |-> Size(0, 0), fmap |-> <<>>]

-----------------------------------------------------------------------------
(* Calls of the padding primitives *)

NoTransposeRun ==
    [k |-> 0, s |-> 0, d |-> 0, output_padding |-> 0, L |-> 0, out |-> Failed,
     std |-> Failed]

NoPaddingRun ==
    [kernel_size |-> 0, dilation |-> 0, mode |-> "none", raised |-> FALSE,
     p_left |-> 0, p_right |-> 0]

Returned(p_left, p_right) ==
    [raised |-> FALSE, p_left |-> p_left, p_right |-> p_right]

Raised == [raised |-> TRUE, p_left |-> 0, p_right |-> 0]

\* get_padding(kernel_size, dilation, mode)
GetPadding(kernel_size, dilation, mode) ==
    IF kernel_size = 1 THEN Returned(0, 0)
    ELSE LET p      == (kernel_size - 1) * dilation + 1
             half_p == p \div 2
         IN  IF mode = "centered" THEN Returned(half_p, half_p)
             ELSE IF mode = "causal" THEN Returned(2 * half_p, 0)
             ELSE IF mode = "anticausal" THEN Returned(0, 2 * half_p)
             ELSE Raised

\* the mode strings the docstring names
ValidModes == {"centered", "causal", "anticausal"}

\* mode strings given to get_padding
ModeChoices == ValidModes \cup {"reflect"}

-----------------------------------------------------------------------------
(* Training script: train_mode / eval_mode *)

\* nn.Module.train(mode) on the model: every module of model.modules() gets it
Train(flags, mode) == [i \in 1..Len(flags) |-> mode]

\* train_mode: modes = [module.training for module in model.modules()]
SaveModes(flags) == [i \in 1..Len(flags) |-> flags[i]]

RestoreFromFirst(flags, modes) == [i \in 1..Len(flags) |-> modes[1]]

\* train_mode, finally: module.training = modes[i] for each module i
Restore(flags, modes) == [i \in 1..Len(flags) |-> modes[i]]

\* the training flags a model's modules can hold
ModelFlags == UNION { [1..n -> BOOLEAN] : n \in 1..MaxModules }

NoModel == [flags |-> <<>>, modes |-> <<>>, before |-> <<>>, mode |-> FALSE,
            via |-> "none"]

-----------------------------------------------------------------------------
(* The program *)

Init ==
    /\ pc = "new"
    /\ enc = NoModule
    /\ dec = NoModule
    /\ T = 0
    /\ x = Tensor(<<>>)
    /\ layer = 0
    /\ frames = 0
    /\ wd = NoWave
    /\ wrun = NoWaveRun
    /\ sd = NoSTFT
    /\ srun = NoSTFTRun
    /\ tm = NoModel
    /\ ct = NoTransposeRun
    /\ gp = NoPaddingRun

\* SoundStreamXLEncoder(strides=strides): strides[i] is read for i < depth-1
ConstructEncoder(strides) ==
    /\ pc = "new"
    /\ IF Len(strides) < Len(DefaultCMults)
       THEN /\ pc' = "index_error"
            /\ enc' = enc
       ELSE /\ pc' = "enc_built"
            /\ enc' = [strides |-> strides, layers |-> EncoderLayers(strides)]
    /\ UNCHANGED <<dec, T, x, layer, frames, wd, wrun, sd, srun, tm, ct, gp>>

\* SoundStreamXLDecoder(): its strides are written in the constructor
ConstructDecoder ==
    /\ pc = "enc_built"
    /\ dec' = [strides |-> DefaultStrides, layers |-> DecoderLayers]
    /\ pc' = "codec_ready"
    /\ UNCHANGED <<enc, T, x, layer, frames, wd, wrun, sd, srun, tm, ct, gp>>

\* encoder(x) is called on a waveform of n samples
EncoderCall(n) ==
    /\ pc = "codec_ready"
    /\ T' = n
    /\ x' = Input(n)
    /\ layer' = 1
    /\ pc' = "encoding"
    /\ UNCHANGED <<enc, dec, frames, wd, wrun, sd, srun, tm, ct, gp>>

\* nn.Sequential.forward of the encoder: one module of self.layers
EncoderLayer ==
    /\ pc = "encoding"
    /\ layer <= Len(enc.layers)
    /\ LET y == ApplyLayer(enc.layers[layer], x)
       IN  /\ x' = y
           /\ pc' = IF y.ok THEN "encoding" ELSE "shape_error"
    /\ layer' = layer + 1
    /\ UNCHANGED <<enc, dec, T, frames, wd, wrun, sd, srun, tm, ct, gp>>

\* SoundStreamXLEncoder.forward returns
EncoderReturn ==
    /\ pc = "encoding"
    /\ layer > Len(enc.layers)
    /\ frames' = Len(x.dep)
    /\ pc' = "encoded"
    /\ UNCHANGED <<enc, dec, T, x, layer, wd, wrun, sd, srun, tm, ct, gp>>

\* SoundStreamXL.forward: the quantizer keeps the shape, frame by frame;
\* decoder(quantized) is called
DecoderCall ==
    /\ pc = "encoded"
    /\ layer' = 1
    /\ pc' = "decoding"
    /\ UNCHANGED <<enc, dec, T, x, frames, wd, wrun, sd, srun, tm, ct, gp>>

\* nn.Sequential.forward of the decoder: one module of self.layers
DecoderLayer ==
    /\ pc = "decoding"
    /\ layer <= Len(dec.layers)
    /\ LET y == ApplyLayer(dec.layers[layer], x)
       IN  /\ x' = y
           /\ pc' = IF y.ok THEN "decoding" ELSE "shape_error"
    /\ layer' = layer + 1
    /\ UNCHANGED <<enc, dec, T, frames, wd, wrun, sd, srun, tm, ct, gp>>

\* SoundStreamXLDecoder.forward returns
DecoderReturn ==
    /\ pc = "decoding"
    /\ layer > Len(dec.layers)
    /\ pc' = "decoded"
    /\ UNCHANGED <<enc, dec, T, x, layer, frames, wd, wrun, sd, srun, tm, ct, gp>>

\* WaveDiscriminator(num_D, downsampling_factor)
ConstructWave(n, f) ==
    /\ pc = "new"
    /\ wd' = [num_D |-> n, downsampling_factor |-> f]
    /\ pc' = "wave_ready"
    /\ UNCHANGED <<enc, dec, T, x, layer, frames, wrun, sd, srun, tm, ct, gp>>

\* WaveDiscriminator.features_lengths(lengths)
WaveFeaturesLengths(lengths) ==
    /\ pc = "wave_ready"
    /\ wrun' = [wrun EXCEPT !.L = lengths,
                            !.lens = WaveFeaturesLengthsOf(wd, lengths)]
    /\ pc' = "wave_lens"
    /\ UNCHANGED <<enc, dec, T, x, layer, frames, wd, sd, srun, tm, ct, gp>>

\* WaveDiscriminator.forward(x) on an input of the same length
WaveForwardCall ==
    /\ pc = "wave_lens"
    /\ wrun' = [wrun EXCEPT !.x = wrun.L, !.i = 0, !.results = EmptyDict]
    /\ pc' = "wave_loop"
    /\ UNCHANGED <<enc, dec, T, x, layer, frames, wd, sd, srun, tm, ct, gp>>

\* WaveDiscriminator.forward: disc(x) is entered for scale i
WaveScaleBegin ==
    /\ pc = "wave_loop"
    /\ wrun.i < wd.num_D
    /\ wrun' = [wrun EXCEPT !.h = wrun.x, !.j = 1, !.fmap = <<>>]
    /\ pc' = "wave_block"
    /\ UNCHANGED <<enc, dec, T, x, layer, frames, wd, sd, srun, tm, ct, gp>>

\* WaveDiscriminatorBlock.forward: one layer, its output appended
WaveBlockLayer ==
    /\ pc = "wave_block"
    /\ wrun.j <= Len(WaveBlockLayers)
    /\ LET h == WaveLayerLen(WaveBlockLayers[wrun.j], wrun.h)
       IN  IF h = Err
           THEN /\ pc' = "shape_error"
                /\ wrun' = [wrun EXCEPT !.h = Err]
           ELSE /\ pc' = "wave_block"
                /\ wrun' = [wrun EXCEPT !.h = h, !.j = wrun.j + 1,
                                        !.fmap = Append(wrun.fmap, h)]
    /\ UNCHANGED <<enc, dec, T, x, layer, frames, wd, sd, srun, tm, ct, gp>>

\* WaveDiscriminator.forward: results[key] = disc(x); x = self.downsampler(x)
WaveScaleEnd ==
    /\ pc = "wave_block"
    /\ wrun.j > Len(WaveBlockLayers)
    /\ LET pooled == Downsampler(wrun.x)
       IN  /\ wrun' = [wrun EXCEPT
                         !.results = DictPut(wrun.results,
                                        DiscKey(wd.downsampling_factor, wrun.i),
                                        wrun.fmap),
                         !.x = pooled,
                         !.i = wrun.i + 1]
           /\ pc' = IF pooled = Err THEN "shape_error" ELSE "wave_loop"
    /\ UNCHANGED <<enc, dec, T, x, layer, frames, wd, sd, srun, tm, ct, gp>>

\* WaveDiscriminator.forward returns results
WaveReturn ==
    /\ pc = "wave_loop"
    /\ wrun.i >= wd.num_D
    /\ pc' = "wave_done"
    /\ UNCHANGED <<enc, dec, T, x, layer, frames, wd, wrun, sd, srun, tm, ct, gp>>

\* STFTDiscriminator(C, F_bins)
ConstructSTFT(F_bins) ==
    /\ pc = "new"
    /\ sd' = [F_bins |-> F_bins, layers |-> STFTLayers(F_bins)]
    /\ pc' = "stft_ready"
    /\ UNCHANGED <<enc, dec, T, x, layer, frames, wd, wrun, srun, tm, ct, gp>>

\* STFTDiscriminator.features_lengths(lengths)
STFTFeaturesLengths(lengths) ==
    /\ pc = "stft_ready"
    /\ srun' = [srun EXCEPT !.L = lengths, !.lens = STFTFeaturesLengthsOf(lengths)]
    /\ pc' = "stft_lens"
    /\ UNCHANGED <<enc, dec, T, x, layer, frames, wd, wrun, sd, tm, ct, gp>>

\* STFTDiscriminator.forward(x), x with that many time steps and F_bins rows
STFTForwardCall ==
    /\ pc = "stft_lens"
    /\ srun' = [srun EXCEPT !.z = Size(srun.L, sd.F_bins), !.j = 1, !.fmap = <<>>]
    /\ pc' = "stft_forward"
    /\ UNCHANGED <<enc, dec, T, x, layer, frames, wd, wrun, sd, tm, ct, gp>>

\* STFTDiscriminator.forward: one layer, its output appended
STFTLayer ==
    /\ pc = "stft_forward"
    /\ srun.j <= Len(sd.layers)
    /\ LET z == STFTLayerSize(sd.layers[srun.j], srun.z)
       IN  IF z = BadSize
           THEN /\ pc' = "shape_error"
                /\ srun' = [srun EXCEPT !.z = BadSize]
           ELSE /\ pc' = "stft_forward"
                /\ srun' = [srun EXCEPT !.z = z, !.j = srun.j + 1,
                                        !.fmap = Append(srun.fmap, z)]
    /\ UNCHANGED <<enc, dec, T, x, layer, frames, wd, wrun, sd, tm, ct, gp>>

\* STFTDiscriminator.forward returns feature_map
STFTReturn ==
    /\ pc = "stft_forward"
    /\ srun.j > Len(sd.layers)
    /\ pc' = "stft_done"
    /\ UNCHANGED <<enc, dec, T, x, layer, frames, wd, wrun, sd, srun, tm, ct, gp>>

\* a model whose modules hold the given training flags
ConstructModel(flags) ==
    /\ pc = "new"
    /\ tm' = [tm EXCEPT !.flags = flags]
    /\ pc' = "model_ready"
    /\ UNCHANGED <<enc, dec, T, x, layer, frames, wd, wrun, sd, srun, ct, gp>>

\* with train_mode(model, mode): the modes are saved, model.train(mode) is
\* yielded and the body is entered (before: the flags just before entry)
TrainModeEnter(mode) ==
    /\ pc = "model_ready"
    /\ tm' = [tm EXCEPT !.before = tm.flags,
                        !.modes = SaveModes(tm.flags),
                        !.flags = Train(tm.flags, mode),
                        !.mode = mode,
                        !.via = "train_mode"]
    /\ pc' = "tm_body"
    /\ UNCHANGED <<enc, dec, T, x, layer, frames, wd, wrun, sd, srun, ct, gp>>

\* with eval_mode(model): train_mode(model, False)
EvalModeEnter ==
    /\ pc = "model_ready"
    /\ tm' = [tm EXCEPT !.before = tm.flags,
                        !.modes = SaveModes(tm.flags),
                        !.flags = Train(tm.flags, FALSE),
                        !.mode = FALSE,
                        !.via = "eval_mode"]
    /\ pc' = "tm_body"
    /\ UNCHANGED <<enc, dec, T, x, layer, frames, wd, wrun, sd, srun, ct, gp>>

\* the body of the with block returns; the finally clause restores the modes
TrainModeExit ==
    /\ pc = "tm_body"
    /\ tm' = [tm EXCEPT !.flags = Restore(tm.flags, tm.modes)]
    /\ pc' = "tm_done"
    /\ UNCHANGED <<enc, dec, T, x, layer, frames, wd, wrun, sd, srun, ct, gp>>

\* the body of the with block raises; the finally clause restores the modes
\* and the exception goes on to the caller
TrainModeExitRaising ==
    /\ pc = "tm_body"
    /\ tm' = [tm EXCEPT !.flags = Restore(tm.flags, tm.modes)]
    /\ pc' = "tm_raised"
    /\ UNCHANGED <<enc, dec, T, x, layer, frames, wd, wrun, sd, srun, ct, gp>>

\* CausalConvTranspose1d(kernel_size=k, stride=s, dilation=d,
\* output_padding=output_padding)
ConstructTranspose(k, s, d, output_padding) ==
    /\ pc = "new"
    /\ ct' = [ct EXCEPT !.k = k, !.s = s, !.d = d,
                        !.output_padding = output_padding]
    /\ pc' = "ct_ready"
    /\ UNCHANGED <<enc, dec, T, x, layer, frames, wd, wrun, sd, srun, tm, gp>>

\* CausalConvTranspose1d.forward(x) on n time steps (std: what
\* F.conv_transpose1d returned before the slice)
TransposeForward(n) ==
    /\ pc = "ct_ready"
    /\ LET std == ConvTranspose1d(Input(n), ct.k, ct.s, ct.d, ct.output_padding)
           out == CausalConvTranspose1dForward(Input(n), ct.k, ct.s, ct.d,
                                               ct.output_padding)
       IN  /\ ct' = [ct EXCEPT !.L = n, !.std = std, !.out = out]
           /\ pc' = IF out.ok THEN "ct_done" ELSE "shape_error"
    /\ UNCHANGED <<enc, dec, T, x, layer, frames, wd, wrun, sd, srun, tm, gp>>

\* get_padding(kernel_size, dilation, mode) is called
GetPaddingCall(kernel_size, dilation, mode) ==
    /\ pc = "new"
    /\ LET r == GetPadding(kernel_size, dilation, mode)
       IN  /\ gp' = [kernel_size |-> kernel_size, dilation |-> dilation,
                     mode |-> mode, raised |-> r.raised,
                     p_left |-> r.p_left, p_right |-> r.p_right]
           /\ pc' = IF r.raised THEN "gp_raised" ELSE "gp_returned"
    /\ UNCHANGED <<enc, dec, T, x, layer, frames, wd, wrun, sd, srun, tm, ct>>

Next ==
    \/ \E strides \in StrideChoices : ConstructEncoder(strides)
    \/ ConstructDecoder
    \/ \E n \in CodecLengths : EncoderCall(n)
    \/ EncoderLayer
    \/ EncoderReturn
    \/ DecoderCall
    \/ DecoderLayer
    \/ DecoderReturn
    \/ \E n \in 1..MaxNumD, f \in 1..MaxFactor : ConstructWave(n, f)
    \/ \E lengths \in 0..MaxWaveLen : WaveFeaturesLengths(lengths)
    \/ WaveForwardCall
    \/ WaveScaleBegin
    \/ WaveBlockLayer
    \/ WaveScaleEnd
    \/ WaveReturn
    \/ \E F_bins \in Pow(2, 6)..MaxFBins : ConstructSTFT(F_bins)
    \/ \E lengths \in 0..MaxSTFTLen : STFTFeaturesLengths(lengths)
    \/ STFTForwardCall
    \/ STFTLayer
    \/ STFTReturn
    \/ \E flags \in ModelFlags : ConstructModel(flags)
    \/ \E mode \in BOOLEAN : TrainModeEnter(mode)
    \/ EvalModeEnter
    \/ TrainModeExit
    \/ TrainModeExitRaising
    \/ \E k \in 1..MaxKernel, s \in 1..MaxStride, d \in 1..MaxDilation,
          output_padding \in 0..MaxOutputPadding :
            ConstructTranspose(k, s, d, output_padding)
    \/ \E n \in 1..MaxTransposeLen : TransposeForward(n)
    \/ \E kernel_size \in 1..MaxPadKernel, dilation \in 1..MaxDilation,
          mode \in ModeChoices :
            GetPaddingCall(kernel_size, dilation, mode)

Spec == Init /\ [][Next]_vars

-----------------------------------------------------------------------------
(* Properties of the generator *)

CodecBuilt == enc # NoModule /\ dec # NoModule

\* total stride of a constructed nn.Sequential: the product of its blocks' strides
TotalStride(m) == Prod(BlockStrides(m.layers))

\* C1: with the default strides [2,2,4,5,8] and an input length T >= 1 that
\* is a multiple of their product R, the encoder returns exactly T/R latent
\* frames and the decoder turns those frames into exactly T samples; no layer
\* of either stack raises on the way.
C1_ShapeInvariant ==
    (CodecBuilt /\ enc.strides = DefaultStrides /\ T >= 1
        /\ T % Prod(enc.strides) = 0)
    => /\ pc # "shape_error"
       /\ pc \in {"encoded", "decoding", "decoded"}
            => frames = T \div Prod(enc.strides)
       /\ pc = "encoded" => (x.ok /\ Len(x.dep) = frames)
       /\ pc = "decoded" => (x.ok /\ Len(x.dep) = T)

\* a two-frame input has gone through encoder and decoder
C1_Witness ==
    /\ pc = "decoded"
    /\ enc.strides = DefaultStrides
    /\ T = 2 * Prod(DefaultStrides)
    /\ frames = 2
    /\ Len(x.dep) = T

\* C2: every CausalConv1d of the encoder, applied to the activation it is
\* given, reads for output index j only input indices <= j * stride; and each
\* latent frame j the encoder returns depends only on input samples with
\* index <= j * R, R the product of the encoder's strides, so no sample after
\* j * R can change frame j.
C2_Causality ==
    /\ (pc = "encoding" /\ layer <= Len(enc.layers) /\ x.ok)
        => \A c \in CausalConvsOf(enc.layers[layer]) :
              LET y == CausalConv1d(Input(Len(x.dep)), c[1], c[2], c[3])
              IN  /\ y.ok
                  /\ \A j \in 0..(Len(y.dep) - 1) : y.dep[j + 1] <= j * c[2]
    /\ pc = "encoded"
        => /\ x.ok
           /\ \A j \in 0..(frames - 1) : x.dep[j + 1] <= j * TotalStride(enc)
           /\ \A j \in 0..(frames - 1) :
                \A m \in (j * TotalStride(enc) + 1)..(T - 1) : x.dep[j + 1] < m

\* frame 1 of a two-frame input reaches back from sample R and no further on
C2_Witness ==
    /\ pc = "encoded"
    /\ enc.strides = DefaultStrides
    /\ T = 2 * Prod(DefaultStrides)
    /\ frames = 2
    /\ x.dep[2] = Prod(DefaultStrides)
    /\ x.dep[2] < T - 1

\* C8 as stated: reversed stride order and a total stride of 3200.
C8_TotalStride3200 ==
    (CodecBuilt /\ enc.strides = DefaultStrides)
    => /\ BlockStrides(dec.layers) = Reverse(BlockStrides(enc.layers))
       /\ TotalStride(enc) = 3200
       /\ TotalStride(dec) = 3200

\* C8 (amended): the decoder applies its block strides in the reverse of the
\* encoder's order [2,2,4,5,8], i.e. 8,5,4,2,2, and the total stride, the
\* product of these strides, is 640 for both encoder and decoder.
C8_StrideInversion ==
    /\ dec # NoModule
        => /\ BlockStrides(dec.layers) = <<8, 5, 4, 2, 2>>
           /\ BlockStrides(dec.layers) = Reverse(dec.strides)
           /\ TotalStride(dec) = 640
    /\ (CodecBuilt /\ enc.strides = DefaultStrides)
        => /\ BlockStrides(enc.layers) = <<2, 2, 4, 5, 8>>
           /\ BlockStrides(dec.layers) = Reverse(BlockStrides(enc.layers))
           /\ TotalStride(enc) = 640

\* encoder and decoder are both constructed with the default strides
C8_Witness ==
    /\ pc = "codec_ready"
    /\ enc.strides = DefaultStrides
    /\ BlockStrides(dec.layers) = <<8, 5, 4, 2, 2>>

\* C10 as stated: an encoder whose stride list differs from the decoder's is
\* never constructed beside it; the construction fails.
C10_MismatchRejected ==
    CodecBuilt => enc.strides = dec.strides

-----------------------------------------------------------------------------
(* Properties of the wave-based discriminator *)

WaveBuilt == wd # NoWave

WaveScales == 0..(wd.num_D - 1)

WaveKey(i) == DiscKey(wd.downsampling_factor, i)

\* the last scale whose name is the name of scale i (a dict keeps the last
\* value stored under a key)
LastScaleNamedAs(i) ==
    CHOOSE k \in WaveScales :
        /\ WaveKey(k) = WaveKey(i)
        /\ \A n \in WaveScales : WaveKey(n) = WaveKey(i) => n <= k

\* C3: the seven lengths features_lengths(L) holds for a scale are, index for
\* index, the time lengths of the seven feature maps forward produces for that
\* scale: for each scale as its block finishes (which it does exactly when
\* floor(L / 2^i) >= 8), and for every entry of the two dicts when forward
\* returns.
C3_LengthsMatchForward ==
    /\ (pc = "wave_block" /\ wrun.j > Len(WaveBlockLayers))
        => /\ wrun.L \div Pow(2, wrun.i) >= 8
           /\ wrun.x = wrun.L \div Pow(2, wrun.i)
           /\ Len(wrun.fmap) = 7
           /\ LastScaleNamedAs(wrun.i) = wrun.i
                => wrun.fmap = wrun.lens[WaveKey(wrun.i)]
    /\ (pc = "shape_error" /\ WaveBuilt)
        => wrun.L \div Pow(2, wrun.i) < 8
    /\ pc = "wave_done"
        => /\ DOMAIN wrun.results = DOMAIN wrun.lens
           /\ \A i \in WaveScales :
                /\ wrun.L \div Pow(2, i) >= 8
                /\ wrun.results[WaveKey(i)] = wrun.lens[WaveKey(i)]

\* forward has returned three scales of a length-999 input
C3_Witness ==
    /\ pc = "wave_done"
    /\ wd.num_D = 3
    /\ wd.downsampling_factor = 2
    /\ wrun.L = 999
    /\ wrun.results[4] = <<249, 63, 16, 4, 1, 1, 1>>
    /\ wrun.results[4] = wrun.lens[4]

\* C4 as stated: for L = 1000 the scale-0 lengths are
\* [1000, 250, 62, 15, 3, 3, 3].
C4_Lengths1000AsStated ==
    (pc = "wave_lens" /\ wrun.L = 1000 /\ LastScaleNamedAs(0) = 0)
    => wrun.lens[WaveKey(0)] = <<1000, 250, 62, 15, 3, 3, 3>>

\* C4 (amended): for L = 1000 the scale-0 lengths the length formula returns
\* are exactly [1000, 250, 63, 16, 4, 4, 4], which are also the lengths of the
\* feature maps forward produces at scale 0.
C4_Lengths1000 ==
    /\ (pc = "wave_lens" /\ wrun.L = 1000 /\ LastScaleNamedAs(0) = 0)
        => wrun.lens[WaveKey(0)] = <<1000, 250, 63, 16, 4, 4, 4>>
    /\ (pc = "wave_block" /\ wrun.L = 1000 /\ wrun.i = 0
            /\ wrun.j > Len(WaveBlockLayers))
        => wrun.fmap = <<1000, 250, 63, 16, 4, 4, 4>>

\* features_lengths has returned for L = 1000
C4_Witness ==
    /\ pc = "wave_lens"
    /\ wrun.L = 1000
    /\ wd.downsampling_factor = 2
    /\ wrun.lens[1][3] = 63

\* C5 as stated: the lengths returned for scale i are the scale-0 sequence
\* applied to floor(L / downsampling_factor^i).
C5_DividesByFactor ==
    pc = "wave_lens"
    => \A i \in WaveScales :
          wrun.lens[WaveKey(i)] =
              WaveBlockFeaturesLengths(
                  wrun.L \div Pow(wd.downsampling_factor, i))

\* C5 (amended): the lengths returned under the name of scale i are the
\* scale-0 sequence applied to floor(L / 2^k), where k is the last scale in
\* 0..num_D-1 that carries that name (k = i whenever downsampling_factor >= 2):
\* the divisor is the fixed pooling factor 2, whatever downsampling_factor is.
C5_DividesByTwo ==
    pc = "wave_lens"
    => /\ DOMAIN wrun.lens = { WaveKey(i) : i \in WaveScales }
       /\ \A i \in WaveScales :
            /\ wd.downsampling_factor >= 2 => LastScaleNamedAs(i) = i
            /\ wrun.lens[WaveKey(i)] =
                 << wrun.L \div Pow(2, LastScaleNamedAs(i)),
                    ((wrun.L \div Pow(2, LastScaleNamedAs(i))) + 3) \div 4,
                    ((wrun.L \div Pow(2, LastScaleNamedAs(i))) + 15) \div 16,
                    ((wrun.L \div Pow(2, LastScaleNamedAs(i))) + 63) \div 64,
                    ((wrun.L \div Pow(2, LastScaleNamedAs(i))) + 255) \div 256,
                    ((wrun.L \div Pow(2, LastScaleNamedAs(i))) + 255) \div 256,
                    ((wrun.L \div Pow(2, LastScaleNamedAs(i))) + 255) \div 256 >>

\* features_lengths has returned for downsampling_factor 3: scale 2 is named
\* disc_9 and holds the lengths of floor(1000 / 4) = 250, not of 111
C5_Witness ==
    /\ pc = "wave_lens"
    /\ wd.downsampling_factor = 3
    /\ wd.num_D = 3
    /\ wrun.L = 1000
    /\ wrun.lens[9] = <<250, 63, 16, 4, 1, 1, 1>>

-----------------------------------------------------------------------------
(* Properties of the STFT-based discriminator *)

STFTBuilt == sd # NoSTFT

\* the time lengths of a list of (time, frequency) sizes
Times(zs) == [n \in 1..Len(zs) |-> zs[n].t]

\* C6: for every time length L >= 7 forward runs through all eight layers,
\* the time lengths of its feature maps are, index for index,
\* [L-6, L-6, (L-5)/2, (L-5)/2, (L-3)/4, (L-3)/4, (L+1)/8, (L+1)/8] (floored),
\* which is what features_lengths(L) returns ([58,58,29,29,15,15,8,8] for
\* L = 64), and at every ResidualUnit2d the main and the skip branch have the
\* same time and frequency size.
C6_STFTLengths ==
    (STFTBuilt /\ srun.L >= 7)
    => /\ pc # "shape_error"
       /\ pc \in {"stft_lens", "stft_forward", "stft_done"}
            => /\ srun.lens =
                    << srun.L - 6, srun.L - 6,
                       (srun.L - 5) \div 2, (srun.L - 5) \div 2,
                       (srun.L - 3) \div 4, (srun.L - 3) \div 4,
                       (srun.L + 1) \div 8, (srun.L + 1) \div 8 >>
               /\ srun.L = 64 => srun.lens = <<58, 58, 29, 29, 15, 15, 8, 8>>
       /\ pc \in {"stft_forward", "stft_done"}
            => Times(srun.fmap) = SubSeq(srun.lens, 1, Len(srun.fmap))
       /\ pc = "stft_done" => Len(srun.fmap) = 8
       /\ (pc = "stft_forward" /\ srun.j <= Len(sd.layers)
                /\ sd.layers[srun.j].op = "ResidualUnit2d")
            => LET l == sd.layers[srun.j]
               IN  /\ RU2dMain(srun.z, l.s_t, l.s_f) # BadSize
                   /\ RU2dMain(srun.z, l.s_t, l.s_f) = RU2dSkip(srun.z, l.s_t, l.s_f)

\* forward has returned its eight feature maps for L = 64
C6_Witness ==
    /\ pc = "stft_done"
    /\ srun.L = 64
    /\ Times(srun.fmap) = <<58, 58, 29, 29, 15, 15, 8, 8>>

\* C7: for every F_bins >= 64 the last feature map of forward has
\* frequency-axis size exactly 1.
C7_FrequencyCollapsesToOne ==
    (pc = "stft_done" /\ sd.F_bins >= 64)
    => srun.fmap[Len(srun.fmap)].f = 1

\* C9: features_lengths of either discriminator never returns a zero or
\* negative feature length; an input length that would give one ends the call
\* in an error instead.
C9_NoNonPositiveLength ==
    /\ pc = "stft_lens" => \A n \in 1..Len(srun.lens) : srun.lens[n] > 0
    /\ pc = "wave_lens"
        => \A key \in DOMAIN wrun.lens :
              \A n \in 1..Len(wrun.lens[key]) : wrun.lens[key][n] > 0

-----------------------------------------------------------------------------
(* Properties of the training script's mode helpers *)

\* C11: inside a `with train_mode(model, mode)` block (eval_mode(model) is
\* mode False) every module's training flag equals the requested mode, and
\* after the block exits, by return or by an exception raised in the body,
\* every module's training flag is the one it had just before entry.
C11_ModeScoped ==
    /\ pc = "tm_body"
        => /\ Len(tm.flags) = Len(tm.before)
           /\ \A i \in 1..Len(tm.flags) : tm.flags[i] = tm.mode
           /\ tm.via = "eval_mode" => tm.mode = FALSE
    /\ pc \in {"tm_done", "tm_raised"}
        => /\ Len(tm.flags) = Len(tm.before)
           /\ \A i \in 1..Len(tm.flags) : tm.flags[i] = tm.before[i]

\* an eval_mode block over a model with mixed flags was left by an exception
C11_Witness ==
    /\ pc = "tm_raised"
    /\ tm.via = "eval_mode"
    /\ tm.before = <<FALSE, TRUE, FALSE>>
    /\ tm.flags = <<FALSE, TRUE, FALSE>>

-----------------------------------------------------------------------------
(* Properties of the padding primitives *)

TransposeBuilt == ct.k > 0

\* C12: for every kernel size, dilation, stride, output padding (one that
\* conv_transpose1d accepts) and input length L >= 1, CausalConvTranspose1d
\* returns the standard transposed-convolution output with exactly
\* causal_padding = d*(k-1) + output_padding + 1 - stride samples removed from
\* its right edge, L*stride samples in all, also when causal_padding is 0.
C12_TrimsCausalPadding ==
    (TransposeBuilt /\ ct.L >= 1 /\ ct.output_padding < Max2(ct.s, ct.d))
    => /\ pc = "ct_done"
       /\ ct.std.ok
       /\ ct.out.ok
       /\ Len(ct.out.dep) = ct.L * ct.s
       /\ ct.out.dep =
            SubSeq(ct.std.dep, 1,
                   Len(ct.std.dep)
                     - (ct.d * (ct.k - 1) + ct.output_padding + 1 - ct.s))

\* C13: get_padding raises for every mode string other than "centered",
\* "causal" and "anticausal", whatever kernel_size >= 1 and dilation >= 1
\* are, and for the three valid modes returns (p_left, p_right) with
\* p_right = 0 for "causal" and p_left = 0 for "anticausal".
C13_RejectsInvalidMode ==
    (pc \in {"gp_returned", "gp_raised"} /\ gp.kernel_size >= 1
        /\ gp.dilation >= 1)
    => /\ gp.mode \notin ValidModes => (gp.raised /\ pc = "gp_raised")
       /\ gp.mode \in ValidModes
            => /\ ~gp.raised
               /\ gp.mode = "causal" => gp.p_right = 0
               /\ gp.mode = "anticausal" => gp.p_left = 0

====
